---- MODULE Spec2Model ----
(***************************************************************************)
(* Bonding-curve pricing engine (crates/magic-curves/src/core).            *)
(*                                                                         *)
(* The engine is a family of pure functions of a curve value and a query.  *)
(* A state of the model is one curve, the build profile of the crate, and  *)
(* the last call made on the curve with the value it produced.             *)
(*                                                                         *)
(* u64 is modelled as the integers 0..umax.  Two integer domains are       *)
(* explored:                                                               *)
(*   - a narrow one, umax = 2^Bits - 1, in which the supplies range over   *)
(*     the whole domain, so that every overflow and underflow of the code  *)
(*     happens;                                                            *)
(*   - a reference one, umax = 2^30 - 1, for the reference computations of *)
(*     the crate's tests, with every price expressed in units of           *)
(*     10_000_000 (the prices are homogeneous in the coefficients, and     *)
(*     2^30 units is below u64::MAX, so a computation that stays in range  *)
(*     here stays in range in u64).                                        *)
(***************************************************************************)
EXTENDS Integers, Sequences, FiniteSets, TLC

VARIABLES
    curve,            \* the curve value (LinearBondingCurve / QuadraticBondingCurve)
    overflow_checks,  \* build profile: TRUE = arithmetic overflow panics (debug),
                      \*                FALSE = it wraps (release)
    umax,             \* the maximum of the unsigned integer domain (u64::MAX)
    call,             \* the last operation invoked and its arguments
    result            \* what that operation produced

vars == <<curve, overflow_checks, umax, call, result>>

(***************************************************************************)
(* Bounds of the model.                                                    *)
(***************************************************************************)
Bits == 6
MaxCoef == 3
MaxAmount == 5

NarrowMax == 2^Bits - 1
ReferenceMax == 2^30 - 1

(***************************************************************************)
(* Option<u64> and aborted computations, encoded beside the values 0..umax *)
(***************************************************************************)
None == -1
Panic == -2

(***************************************************************************)
(* u64 primitives.                                                         *)
(***************************************************************************)
Modulus == umax + 1

\* x * y <= umax, decided without forming the product
MulFits(x, y) == x = 0 \/ y <= umax \div x

\* (x * y) mod 2^w by doubling, so that no intermediate exceeds 2 * umax
RECURSIVE MulMod(_, _)
MulMod(x, y) ==
    IF y = 0 THEN 0
    ELSE LET h == MulMod(x, y \div 2)
             d == (2 * h) % Modulus
         IN IF y % 2 = 1 THEN (d + x) % Modulus ELSE d

\* The checked primitives.  An operand that is None makes the result None:
\* this is the chaining of the code, a.checked_mul(b).and_then(|x|
\* x.checked_add(c)) being checked_add(checked_mul(a, b), c), and `?` on an
\* Option inside a closure.
IsNone(x, y) == x = None \/ y = None

checked_add(x, y) ==
    IF IsNone(x, y) THEN None ELSE IF x + y <= umax THEN x + y ELSE None

checked_sub(x, y) ==
    IF IsNone(x, y) THEN None ELSE IF x >= y THEN x - y ELSE None

checked_mul(x, y) ==
    IF IsNone(x, y) THEN None ELSE IF MulFits(x, y) THEN x * y ELSE None

checked_div(x, y) ==
    IF IsNone(x, y) THEN None ELSE IF y = 0 THEN None ELSE x \div y

\* The operators +, -, *, / on u64: on overflow they panic when the build has
\* overflow checks and wrap otherwise.  A panic in an operand aborts the
\* whole expression.
add(oc, x, y) ==
    IF x = Panic \/ y = Panic THEN Panic
    ELSE IF x + y <= umax THEN x + y
    ELSE IF oc THEN Panic ELSE (x + y) % Modulus

sub(oc, x, y) ==
    IF x = Panic \/ y = Panic THEN Panic
    ELSE IF x >= y THEN x - y
    ELSE IF oc THEN Panic ELSE (x - y + Modulus) % Modulus

mul(oc, x, y) ==
    IF x = Panic \/ y = Panic THEN Panic
    ELSE IF MulFits(x, y) THEN x * y
    ELSE IF oc THEN Panic ELSE MulMod(x, y)

div(x, y) == IF x = Panic THEN Panic ELSE x \div y

(***************************************************************************)
(* Values an operation produces.                                           *)
(***************************************************************************)
Value(v) == [tag |-> "Value", value |-> v, error |-> "NoError"]
Ok(v) == [tag |-> "Ok", value |-> v, error |-> "NoError"]
Err(e) == [tag |-> "Err", value |-> 0, error |-> e]
Panicked == [tag |-> "Panic", value |-> 0, error |-> "NoError"]
NoResult == [tag |-> "NoResult", value |-> 0, error |-> "NoError"]

\* Faulty variant: the failure reported with the other variant of the error.
ok_or_DivisionByZero(opt) == IF opt = None THEN Err("DivisionByZero") ELSE Ok(opt)

\* ok_or(BondingCurveError::Overflow)
ok_or_Overflow(opt) == IF opt = None THEN Err("Overflow") ELSE Ok(opt)

\* a u64 returned by an unchecked operation, or the panic that aborted it
Returned(x) == IF x = Panic THEN Panicked ELSE Value(x)

(***************************************************************************)
(* LinearBondingCurve: f(x) = linear * x + base                            *)
(***************************************************************************)
LinearBondingCurve_new(linear, base) ==
    [kind |-> "Linear", linear |-> linear, base |-> base]

\* Faulty variant: the price of the next unit, linear * (supply + 1) + base.
Linear_calculate_price_next_unit(self, supply, oc) ==
    add(oc, mul(oc, self.linear, add(oc, supply, 1)), self.base)

Linear_calculate_price(self, supply, oc) ==
    add(oc, mul(oc, self.linear, supply), self.base)

\* Faulty variant: the last unit of an Add batch taken at
\* starting_supply + amount instead of starting_supply + amount - 1.
Linear_calculate_price_many_add_off_by_one(self, starting_supply, amount, side, oc) ==
    LET a1 == add(oc, mul(oc, self.linear, starting_supply), self.base)
        an == IF side = "Add"
              THEN add(oc, mul(oc, self.linear, add(oc, starting_supply, amount)),
                           self.base)
              ELSE add(oc, mul(oc, self.linear,
                                   add(oc, sub(oc, starting_supply, amount), 1)),
                           self.base)
    IN div(mul(oc, amount, add(oc, a1, an)), 2)

\* Faulty variant: the last unit of a Remove batch taken at
\* starting_supply - amount instead of starting_supply - amount + 1.
Linear_calculate_price_many_remove_off_by_one(self, starting_supply, amount, side, oc) ==
    LET a1 == add(oc, mul(oc, self.linear, starting_supply), self.base)
        an == IF side = "Add"
              THEN add(oc, mul(oc, self.linear,
                                   sub(oc, add(oc, starting_supply, amount), 1)),
                           self.base)
              ELSE add(oc, mul(oc, self.linear, sub(oc, starting_supply, amount)),
                           self.base)
    IN div(mul(oc, amount, add(oc, a1, an)), 2)

Linear_calculate_price_many(self, starting_supply, amount, side, oc) ==
    LET a1 == add(oc, mul(oc, self.linear, starting_supply), self.base)
        an == IF side = "Add"
              THEN add(oc, mul(oc, self.linear,
                                   sub(oc, add(oc, starting_supply, amount), 1)),
                           self.base)
              ELSE add(oc, mul(oc, self.linear,
                                   add(oc, sub(oc, starting_supply, amount), 1)),
                           self.base)
    IN div(mul(oc, amount, add(oc, a1, an)), 2)

\* Faulty variant: linear * supply formed with a wrapping multiplication.
Linear_calculate_price_checked_wrapping_mul(self, supply) ==
    ok_or_Overflow(checked_add(MulMod(self.linear, supply), self.base))

Linear_calculate_price_checked(self, supply) ==
    ok_or_Overflow(checked_add(checked_mul(self.linear, supply), self.base))

\* Faulty variant: the sum a1 + an halved before it is multiplied by amount.
Linear_calculate_price_many_checked_halve_first(self, starting_supply, amount, side, oc) ==
    LET a1 == checked_add(checked_mul(self.linear, starting_supply), self.base)
        last == IF side = "Add"
                THEN sub(oc, add(oc, starting_supply, amount), 1)
                ELSE add(oc, sub(oc, starting_supply, amount), 1)
        an == checked_add(checked_mul(self.linear, last), self.base)
        sum == checked_mul(checked_div(checked_add(a1, an), 2), amount)
    IN IF a1 = None THEN Err("Overflow")
       ELSE IF last = Panic THEN Panicked
       ELSE IF an = None THEN Err("Overflow")
       ELSE IF sum = None THEN Err("Overflow")
       ELSE Ok(sum)

Linear_calculate_price_many_checked(self, starting_supply, amount, side, oc) ==
    LET a1 == checked_add(checked_mul(self.linear, starting_supply), self.base)
        \* the supply index of the last unit is computed with the plain
        \* operators, not with the checked ones
        last == IF side = "Add"
                THEN sub(oc, add(oc, starting_supply, amount), 1)
                ELSE add(oc, sub(oc, starting_supply, amount), 1)
        an == checked_add(checked_mul(self.linear, last), self.base)
        sum == checked_div(checked_mul(checked_add(a1, an), amount), 2)
    IN IF a1 = None THEN Err("Overflow")
       ELSE IF last = Panic THEN Panicked
       ELSE IF an = None THEN Err("Overflow")
       ELSE IF sum = None THEN Err("Overflow")
       ELSE Ok(sum)

(***************************************************************************)
(* QuadraticBondingCurve: f(x) = quadratic * x^2 + linear * x + base       *)
(***************************************************************************)
QuadraticBondingCurve_new(quadratic, linear, base) ==
    [kind |-> "Quadratic", quadratic |-> quadratic, linear |-> linear, base |-> base]

\* Faulty variant: the quadratic term without the square.
Quadratic_calculate_price_no_square(self, supply, oc) ==
    add(oc, add(oc, mul(oc, self.quadratic, supply),
                    mul(oc, self.linear, supply)),
            self.base)

Quadratic_calculate_price(self, supply, oc) ==
    add(oc, add(oc, mul(oc, mul(oc, self.quadratic, supply), supply),
                    mul(oc, self.linear, supply)),
            self.base)

\* Faulty variant: the sum of squares n(n-1)(2n-1)/6 taken as n(n-1)(2n-1)/2.
Quadratic_calculate_price_many_squares_by_two(self, starting_supply, amount, side, oc) ==
    LET n == amount
        a == starting_supply
        q == self.quadratic
        n1 == sub(oc, n, 1)
        first == mul(oc, mul(oc, mul(oc, q, a), a), n)
        second == mul(oc, mul(oc, mul(oc, q, a), n), n1)
        third == div(mul(oc, mul(oc, mul(oc, q, n), n1),
                             sub(oc, mul(oc, 2, n), 1)), 2)
        sum_quadratic == IF side = "Add"
                         THEN add(oc, add(oc, first, second), third)
                         ELSE add(oc, sub(oc, first, second), third)
        half == div(mul(oc, n, n1), 2)
        sum_linear == IF side = "Add"
                      THEN mul(oc, self.linear, add(oc, mul(oc, a, n), half))
                      ELSE mul(oc, self.linear, sub(oc, mul(oc, a, n), half))
        sum_constant == mul(oc, self.base, n)
    IN add(oc, add(oc, sum_quadratic, sum_linear), sum_constant)

\* Faulty variant: the cross term a * n * (n - 1) added on both sides.
Quadratic_calculate_price_many_same_sign(self, starting_supply, amount, side, oc) ==
    LET n == amount
        a == starting_supply
        q == self.quadratic
        n1 == sub(oc, n, 1)
        first == mul(oc, mul(oc, mul(oc, q, a), a), n)
        second == mul(oc, mul(oc, mul(oc, q, a), n), n1)
        third == div(mul(oc, mul(oc, mul(oc, q, n), n1),
                             sub(oc, mul(oc, 2, n), 1)), 6)
        sum_quadratic == add(oc, add(oc, first, second), third)
        half == div(mul(oc, n, n1), 2)
        sum_linear == IF side = "Add"
                      THEN mul(oc, self.linear, add(oc, mul(oc, a, n), half))
                      ELSE mul(oc, self.linear, sub(oc, mul(oc, a, n), half))
        sum_constant == mul(oc, self.base, n)
    IN add(oc, add(oc, sum_quadratic, sum_linear), sum_constant)

Quadratic_calculate_price_many(self, starting_supply, amount, side, oc) ==
    LET n == amount
        a == starting_supply
        q == self.quadratic
        n1 == sub(oc, n, 1)
        first == mul(oc, mul(oc, mul(oc, q, a), a), n)
        second == mul(oc, mul(oc, mul(oc, q, a), n), n1)
        third == div(mul(oc, mul(oc, mul(oc, q, n), n1),
                             sub(oc, mul(oc, 2, n), 1)), 6)
        sum_quadratic == IF side = "Add"
                         THEN add(oc, add(oc, first, second), third)
                         ELSE add(oc, sub(oc, first, second), third)
        half == div(mul(oc, n, n1), 2)
        sum_linear == IF side = "Add"
                      THEN mul(oc, self.linear, add(oc, mul(oc, a, n), half))
                      ELSE mul(oc, self.linear, sub(oc, mul(oc, a, n), half))
        sum_constant == mul(oc, self.base, n)
    IN add(oc, add(oc, sum_quadratic, sum_linear), sum_constant)

\* Faulty variant: the square formed with a wrapping multiplication.
Quadratic_calculate_price_checked_wrapping_square(self, supply) ==
    ok_or_Overflow(
        checked_add(checked_add(MulMod(MulMod(self.quadratic, supply), supply),
                                checked_mul(self.linear, supply)),
                    self.base))

Quadratic_calculate_price_checked(self, supply) ==
    ok_or_Overflow(
        checked_add(checked_add(checked_mul(checked_mul(self.quadratic, supply),
                                            supply),
                                checked_mul(self.linear, supply)),
                    self.base))

\* Faulty variant: base * n formed with a wrapping multiplication.
Quadratic_calculate_price_many_checked_wrapping_base(self, starting_supply, amount, side) ==
    LET n == amount
        a == starting_supply
        n_minus_1 == checked_sub(n, 1)
        first_term == checked_mul(self.quadratic, checked_mul(checked_mul(a, a), n))
        second_term ==
            checked_mul(self.quadratic, checked_mul(checked_mul(a, n), n_minus_1))
        third_term_pow == checked_sub(checked_mul(2, n), 1)
        third_term ==
            checked_mul(self.quadratic,
                        checked_div(checked_mul(checked_mul(n, n_minus_1),
                                                third_term_pow), 6))
        sum_quadratic ==
            IF side = "Add"
            THEN checked_add(checked_add(first_term, second_term), third_term)
            ELSE checked_add(checked_sub(first_term, second_term), third_term)
        half == checked_div(checked_mul(n, n_minus_1), 2)
        sum_linear ==
            IF side = "Add"
            THEN checked_mul(self.linear, checked_add(checked_mul(a, n), half))
            ELSE checked_mul(self.linear, checked_sub(checked_mul(a, n), half))
        sum_constant == MulMod(self.base, n)
        total == checked_add(checked_add(sum_quadratic, sum_linear), sum_constant)
    IN IF n_minus_1 = None THEN Err("Overflow")
       ELSE IF first_term = None THEN Err("Overflow")
       ELSE IF second_term = None THEN Err("Overflow")
       ELSE IF third_term_pow = None THEN Err("Overflow")
       ELSE IF third_term = None THEN Err("Overflow")
       ELSE IF sum_quadratic = None THEN Err("Overflow")
       ELSE IF sum_linear = None THEN Err("Overflow")
       ELSE ok_or_Overflow(total)

\* Faulty variant: an empty batch priced at Ok(0) ahead of the arithmetic.
Quadratic_calculate_price_many_checked_empty_is_zero(self, starting_supply, amount, side) ==
    LET n == amount
        a == starting_supply
        n_minus_1 == checked_sub(n, 1)
        first_term == checked_mul(self.quadratic, checked_mul(checked_mul(a, a), n))
        second_term ==
            checked_mul(self.quadratic, checked_mul(checked_mul(a, n), n_minus_1))
        third_term_pow == checked_sub(checked_mul(2, n), 1)
        third_term ==
            checked_mul(self.quadratic,
                        checked_div(checked_mul(checked_mul(n, n_minus_1),
                                                third_term_pow), 6))
        sum_quadratic ==
            IF side = "Add"
            THEN checked_add(checked_add(first_term, second_term), third_term)
            ELSE checked_add(checked_sub(first_term, second_term), third_term)
        half == checked_div(checked_mul(n, n_minus_1), 2)
        sum_linear ==
            IF side = "Add"
            THEN checked_mul(self.linear, checked_add(checked_mul(a, n), half))
            ELSE checked_mul(self.linear, checked_sub(checked_mul(a, n), half))
        sum_constant == checked_mul(self.base, n)
        total == checked_add(checked_add(sum_quadratic, sum_linear), sum_constant)
    IN IF n = 0 THEN Ok(0)
       ELSE IF n_minus_1 = None THEN Err("Overflow")
       ELSE IF first_term = None THEN Err("Overflow")
       ELSE IF second_term = None THEN Err("Overflow")
       ELSE IF third_term_pow = None THEN Err("Overflow")
       ELSE IF third_term = None THEN Err("Overflow")
       ELSE IF sum_quadratic = None THEN Err("Overflow")
       ELSE IF sum_linear = None THEN Err("Overflow")
       ELSE IF sum_constant = None THEN Err("Overflow")
       ELSE ok_or_Overflow(total)

Quadratic_calculate_price_many_checked(self, starting_supply, amount, side) ==
    LET n == amount
        a == starting_supply
        n_minus_1 == checked_sub(n, 1)
        first_term == checked_mul(self.quadratic, checked_mul(checked_mul(a, a), n))
        second_term ==
            checked_mul(self.quadratic, checked_mul(checked_mul(a, n), n_minus_1))
        third_term_pow == checked_sub(checked_mul(2, n), 1)
        third_term ==
            checked_mul(self.quadratic,
                        checked_div(checked_mul(checked_mul(n, n_minus_1),
                                                third_term_pow), 6))
        sum_quadratic ==
            IF side = "Add"
            THEN checked_add(checked_add(first_term, second_term), third_term)
            ELSE checked_add(checked_sub(first_term, second_term), third_term)
        half == checked_div(checked_mul(n, n_minus_1), 2)
        sum_linear ==
            IF side = "Add"
            THEN checked_mul(self.linear, checked_add(checked_mul(a, n), half))
            ELSE checked_mul(self.linear, checked_sub(checked_mul(a, n), half))
        sum_constant == checked_mul(self.base, n)
        total == checked_add(checked_add(sum_quadratic, sum_linear), sum_constant)
    IN IF n_minus_1 = None THEN Err("Overflow")
       ELSE IF first_term = None THEN Err("Overflow")
       ELSE IF second_term = None THEN Err("Overflow")
       ELSE IF third_term_pow = None THEN Err("Overflow")
       ELSE IF third_term = None THEN Err("Overflow")
       ELSE IF sum_quadratic = None THEN Err("Overflow")
       ELSE IF sum_linear = None THEN Err("Overflow")
       ELSE IF sum_constant = None THEN Err("Overflow")
       ELSE ok_or_Overflow(total)

(***************************************************************************)
(* The intermediate values of the batch computations, as the build forms   *)
(* them (Panic / None when the step is not reached).                       *)
(***************************************************************************)
\* Faulty variant: the last unit of a Remove batch at starting_supply - amount - 1.
Linear_many_steps_minus_one(self, starting_supply, amount, side, oc) ==
    LET a1 == add(oc, mul(oc, self.linear, starting_supply), self.base)
        shifted == IF side = "Add" THEN add(oc, starting_supply, amount)
                   ELSE sub(oc, starting_supply, amount)
        last == sub(oc, shifted, 1)
        an == add(oc, mul(oc, self.linear, last), self.base)
    IN [a1 |-> a1, shifted |-> shifted, last |-> last, an |-> an,
        subtractions |-> IF side = "Add" THEN {<<shifted, 1>>}
                         ELSE {<<starting_supply, amount>>, <<shifted, 1>>},
        dividend |-> mul(oc, amount, add(oc, a1, an))]

\* Faulty variant: the last unit of an Add batch at starting_supply + amount.
Linear_many_steps_add_off_by_one(self, starting_supply, amount, side, oc) ==
    LET a1 == add(oc, mul(oc, self.linear, starting_supply), self.base)
        shifted == IF side = "Add" THEN add(oc, starting_supply, amount)
                   ELSE sub(oc, starting_supply, amount)
        last == IF side = "Add" THEN shifted ELSE add(oc, shifted, 1)
        an == add(oc, mul(oc, self.linear, last), self.base)
    IN [a1 |-> a1, shifted |-> shifted, last |-> last, an |-> an,
        subtractions |-> IF side = "Add" THEN {}
                         ELSE {<<starting_supply, amount>>},
        dividend |-> mul(oc, amount, add(oc, a1, an))]

\* LinearBondingCurve::calculate_price_many
Linear_many_steps(self, starting_supply, amount, side, oc) ==
    LET a1 == add(oc, mul(oc, self.linear, starting_supply), self.base)
        \* starting_supply + amount, resp. starting_supply - amount
        shifted == IF side = "Add" THEN add(oc, starting_supply, amount)
                   ELSE sub(oc, starting_supply, amount)
        last == IF side = "Add" THEN sub(oc, shifted, 1) ELSE add(oc, shifted, 1)
        an == add(oc, mul(oc, self.linear, last), self.base)
    IN [a1 |-> a1, shifted |-> shifted, last |-> last, an |-> an,
        subtractions |-> IF side = "Add" THEN {<<shifted, 1>>}
                         ELSE {<<starting_supply, amount>>},
        dividend |-> mul(oc, amount, add(oc, a1, an))]

\* LinearBondingCurve::calculate_price_many_checked
Linear_many_checked_steps(self, starting_supply, amount, side, oc) ==
    LET a1 == checked_add(checked_mul(self.linear, starting_supply), self.base)
        shifted == IF a1 = None THEN Panic
                   ELSE IF side = "Add" THEN add(oc, starting_supply, amount)
                   ELSE sub(oc, starting_supply, amount)
        last == IF side = "Add" THEN sub(oc, shifted, 1) ELSE add(oc, shifted, 1)
        an == IF last = Panic THEN None
              ELSE checked_add(checked_mul(self.linear, last), self.base)
    IN [a1 |-> a1, shifted |-> shifted, last |-> last, an |-> an,
        subtractions |-> IF a1 = None THEN {}
                         ELSE IF side = "Add" THEN {<<shifted, 1>>}
                         ELSE {<<starting_supply, amount>>},
        dividend |-> checked_mul(checked_add(a1, an), amount)]

\* Faulty variant: 2n + 1 in the place of 2n - 1.
Quadratic_many_steps_two_n_plus_one(self, starting_supply, amount, side, oc) ==
    LET n == amount
        a == starting_supply
        q == self.quadratic
        n1 == sub(oc, n, 1)
        two_n == mul(oc, 2, n)
        first == mul(oc, mul(oc, mul(oc, q, a), a), n)
        second == mul(oc, mul(oc, mul(oc, q, a), n), n1)
        an == mul(oc, a, n)
        nn1 == mul(oc, n, n1)
    IN [n1 |-> n1, first |-> first, second |-> second, an |-> an, nn1 |-> nn1,
        sixfold |-> mul(oc, mul(oc, mul(oc, q, n), n1), add(oc, two_n, 1)),
        subtractions |-> {<<n, 1>>}
                         \cup IF side = "Remove"
                              THEN {<<first, second>>, <<an, div(nn1, 2)>>}
                              ELSE {}]

\* QuadraticBondingCurve::calculate_price_many
Quadratic_many_steps(self, starting_supply, amount, side, oc) ==
    LET n == amount
        a == starting_supply
        q == self.quadratic
        n1 == sub(oc, n, 1)
        two_n == mul(oc, 2, n)
        first == mul(oc, mul(oc, mul(oc, q, a), a), n)
        second == mul(oc, mul(oc, mul(oc, q, a), n), n1)
        an == mul(oc, a, n)
        nn1 == mul(oc, n, n1)
    IN [n1 |-> n1, first |-> first, second |-> second, an |-> an, nn1 |-> nn1,
        \* quadratic * n * (n - 1) * (2n - 1), the dividend of / 6
        sixfold |-> mul(oc, mul(oc, mul(oc, q, n), n1), sub(oc, two_n, 1)),
        subtractions |-> {<<n, 1>>, <<two_n, 1>>}
                         \cup IF side = "Remove"
                              THEN {<<first, second>>, <<an, div(nn1, 2)>>}
                              ELSE {}]

\* QuadraticBondingCurve::calculate_price_many_checked
Quadratic_many_checked_steps(self, starting_supply, amount, side) ==
    LET n == amount
        a == starting_supply
        n_minus_1 == checked_sub(n, 1)
        two_n == IF n_minus_1 = None THEN None ELSE checked_mul(2, n)
        first_term == checked_mul(self.quadratic, checked_mul(checked_mul(a, a), n))
        second_term ==
            checked_mul(self.quadratic, checked_mul(checked_mul(a, n), n_minus_1))
        an == IF n_minus_1 = None THEN None ELSE checked_mul(a, n)
        nn1 == checked_mul(n, n_minus_1)
    IN [n1 |-> n_minus_1, first |-> first_term, second |-> second_term,
        an |-> an, nn1 |-> nn1,
        \* n * (n - 1) * (2n - 1), the dividend of / 6
        sixfold |-> checked_mul(nn1, checked_sub(two_n, 1)),
        subtractions |-> {<<n, 1>>, <<two_n, 1>>}
                         \cup IF side = "Remove"
                              THEN {<<first_term, second_term>>,
                                    <<an, checked_div(nn1, 2)>>}
                              ELSE {}]

(***************************************************************************)
(* The two capability contracts, dispatched on the curve.                  *)
(***************************************************************************)
calculate_price(self, supply, oc) ==
    IF self.kind = "Linear" THEN Linear_calculate_price(self, supply, oc)
    ELSE Quadratic_calculate_price(self, supply, oc)

calculate_price_many(self, starting_supply, amount, side, oc) ==
    IF self.kind = "Linear"
    THEN Linear_calculate_price_many(self, starting_supply, amount, side, oc)
    ELSE Quadratic_calculate_price_many(self, starting_supply, amount, side, oc)

calculate_price_checked(self, supply) ==
    IF self.kind = "Linear" THEN Linear_calculate_price_checked(self, supply)
    ELSE Quadratic_calculate_price_checked(self, supply)

calculate_price_many_checked(self, starting_supply, amount, side, oc) ==
    IF self.kind = "Linear"
    THEN Linear_calculate_price_many_checked(self, starting_supply, amount, side, oc)
    ELSE Quadratic_calculate_price_many_checked(self, starting_supply, amount, side)

(***************************************************************************)
(* Inputs.                                                                 *)
(***************************************************************************)
OperationSide == {"Add", "Remove"}

Narrow == umax = NarrowMax

\* coefficients of the narrow domain: the small ones and the largest one
Coefficients == (0 .. MaxCoef) \cup {NarrowMax}

NarrowCurves ==
    {LinearBondingCurve_new(l, b) : l \in Coefficients, b \in Coefficients}
    \cup {QuadraticBondingCurve_new(q, l, b) :
            q \in Coefficients, l \in Coefficients, b \in Coefficients}

\* the curves of test_linear_price_calculus and test_quadratic_price_calculus,
\* in units of 10_000_000
ReferenceCurves ==
    {LinearBondingCurve_new(50, 100), QuadraticBondingCurve_new(1, 50, 100)}

Supplies == IF Narrow THEN 0 .. umax ELSE {0, 1, 8, 100, 800}
Amounts == IF Narrow THEN 0 .. MaxAmount ELSE {1, 2, 10}

NoCall == [op |-> "none", supply |-> 0, amount |-> 0, side |-> "Add"]

(***************************************************************************)
(* The state machine.                                                      *)
(***************************************************************************)
Init ==
    /\ \/ umax = NarrowMax /\ curve \in NarrowCurves
       \/ umax = ReferenceMax /\ curve \in ReferenceCurves
    /\ overflow_checks \in BOOLEAN
    /\ call = NoCall
    /\ result = NoResult

\* The engine keeps nothing between calls: a caller makes one call on the
\* curve, takes the value, and is then free to make the next one.
Idle == call = NoCall

CalculatePrice ==
    /\ Idle
    /\ \E supply \in Supplies :
           /\ call' = [op |-> "calculate_price", supply |-> supply,
                       amount |-> 0, side |-> "Add"]
           /\ result' = Returned(calculate_price(curve, supply, overflow_checks))
           /\ UNCHANGED <<curve, overflow_checks, umax>>

CalculatePriceMany ==
    /\ Idle
    /\ \E starting_supply \in Supplies, amount \in Amounts, side \in OperationSide :
           /\ call' = [op |-> "calculate_price_many", supply |-> starting_supply,
                       amount |-> amount, side |-> side]
           /\ result' = Returned(calculate_price_many(curve, starting_supply, amount,
                                                      side, overflow_checks))
           /\ UNCHANGED <<curve, overflow_checks, umax>>

CalculatePriceChecked ==
    /\ Idle
    /\ \E supply \in Supplies :
           /\ call' = [op |-> "calculate_price_checked", supply |-> supply,
                       amount |-> 0, side |-> "Add"]
           /\ result' = calculate_price_checked(curve, supply)
           /\ UNCHANGED <<curve, overflow_checks, umax>>

CalculatePriceManyChecked ==
    /\ Idle
    /\ \E starting_supply \in Supplies, amount \in Amounts, side \in OperationSide :
           /\ call' = [op |-> "calculate_price_many_checked", supply |-> starting_supply,
                       amount |-> amount, side |-> side]
           /\ result' = calculate_price_many_checked(curve, starting_supply, amount,
                                                     side, overflow_checks)
           /\ UNCHANGED <<curve, overflow_checks, umax>>

\* the caller has taken the value; the curve is unchanged
Return ==
    /\ ~Idle
    /\ call' = NoCall
    /\ result' = NoResult
    /\ UNCHANGED <<curve, overflow_checks, umax>>

Next ==
    \/ CalculatePrice
    \/ CalculatePriceMany
    \/ CalculatePriceChecked
    \/ CalculatePriceManyChecked
    \/ Return

Spec == Init /\ [][Next]_vars

TypeOK ==
    /\ curve.kind \in {"Linear", "Quadratic"}
    /\ overflow_checks \in BOOLEAN
    /\ umax \in {NarrowMax, ReferenceMax}
    /\ call.op \in {"none", "calculate_price", "calculate_price_many",
                    "calculate_price_checked", "calculate_price_many_checked"}
    /\ result.tag \in {"NoResult", "Value", "Ok", "Err", "Panic"}
    /\ result.value \in 0 .. umax

(***************************************************************************)
(* f64.  A value is <<tag, x, y>>: <<"num", i, 0>> is the integer i,       *)
(* <<"inf", 1, 0>> and <<"inf", -1, 0>> the infinities, <<"nan", 0, 0>>    *)
(* NaN; any other tag is the finite, rounded value of that operation on    *)
(* the operands x and y, kept as a term.  Integers carry MantissaBits      *)
(* significant bits (53 in f64, against 64 in u64) and are rounded to the  *)
(* nearest, ties to even.  The arguments of exp stay far below 709, so     *)
(* exp never overflows here and every term is a finite number.             *)
(***************************************************************************)
MantissaBits == 4

Num(i) == <<"num", i, 0>>
NaN == <<"nan", 0, 0>>
PosInf == <<"inf", 1, 0>>
NegInf == <<"inf", -1, 0>>

IsNum(a) == a[1] = "num"
IsNaN(a) == a[1] = "nan"
IsInf(a) == a[1] = "inf"
IsZero(a) == IsNum(a) /\ a[2] = 0
IsOne(a) == IsNum(a) /\ a[2] = 1

RECURSIVE Ulp(_, _)
Ulp(x, u) == IF x < (2 ^ MantissaBits) * u THEN u ELSE Ulp(x, 2 * u)

RoundMagnitude(x) ==
    LET u == Ulp(x, 1)
        q == x \div u
        r == x % u
    IN IF 2 * r < u THEN q * u
       ELSE IF 2 * r > u THEN (q + 1) * u
       ELSE IF q % 2 = 0 THEN q * u ELSE (q + 1) * u

Round(i) == IF i >= 0 THEN RoundMagnitude(i) ELSE 0 - RoundMagnitude(0 - i)

\* `x as f64` on a u64
u64_as_f64(x) == Num(Round(x))

\* the sign of a number or of an infinity
Sign(a) == IF a[2] > 0 THEN 1 ELSE IF a[2] < 0 THEN -1 ELSE 0

\* a == b on f64: NaN is equal to nothing
Feq(a, b) == ~IsNaN(a) /\ ~IsNaN(b) /\ a = b

fneg(a) ==
    IF IsNaN(a) THEN NaN
    ELSE IF IsNum(a) \/ IsInf(a) THEN <<a[1], 0 - a[2], 0>>
    ELSE <<"neg", a, Num(0)>>

fadd(a, b) ==
    IF IsNaN(a) \/ IsNaN(b) THEN NaN
    ELSE IF IsInf(a) /\ IsInf(b) THEN (IF a = b THEN a ELSE NaN)
    ELSE IF IsInf(a) THEN a
    ELSE IF IsInf(b) THEN b
    ELSE IF IsNum(a) /\ IsNum(b) THEN Num(Round(a[2] + b[2]))
    ELSE IF IsZero(a) THEN b
    ELSE IF IsZero(b) THEN a
    ELSE <<"add", a, b>>

fsub(a, b) ==
    IF IsNaN(a) \/ IsNaN(b) THEN NaN
    ELSE IF IsInf(a) /\ IsInf(b) THEN (IF a = b THEN NaN ELSE a)
    ELSE IF IsInf(a) THEN a
    ELSE IF IsInf(b) THEN fneg(b)
    ELSE IF IsNum(a) /\ IsNum(b) THEN Num(Round(a[2] - b[2]))
    ELSE IF a = b THEN Num(0)
    ELSE IF IsZero(b) THEN a
    ELSE <<"sub", a, b>>

fmul(a, b) ==
    IF IsNaN(a) \/ IsNaN(b) THEN NaN
    ELSE IF (IsInf(a) /\ IsZero(b)) \/ (IsZero(a) /\ IsInf(b)) THEN NaN
    ELSE IF (IsInf(a) \/ IsNum(a)) /\ (IsInf(b) \/ IsNum(b))
         THEN IF IsInf(a) \/ IsInf(b) THEN <<"inf", Sign(a) * Sign(b), 0>>
              ELSE Num(Round(a[2] * b[2]))
    ELSE IF IsZero(a) \/ IsZero(b) THEN Num(0)
    ELSE IF IsOne(a) THEN b
    ELSE IF IsOne(b) THEN a
    ELSE <<"mul", a, b>>

fdiv(a, b) ==
    IF IsNaN(a) \/ IsNaN(b) THEN NaN
    ELSE IF IsNum(a) /\ IsZero(b)
         THEN (IF a[2] = 0 THEN NaN ELSE <<"inf", Sign(a), 0>>)
    ELSE IF IsNum(a) /\ IsNum(b) /\ a[2] >= 0 /\ b[2] > 0 /\ a[2] % b[2] = 0
         THEN Num(Round(a[2] \div b[2]))
    ELSE <<"div", a, b>>

\* f64::ln
fln(a) ==
    IF IsNaN(a) THEN NaN
    ELSE IF IsZero(a) THEN NegInf
    ELSE IF IsOne(a) THEN Num(0)
    ELSE IF IsNum(a) /\ a[2] < 0 THEN NaN
    ELSE IF IsInf(a) THEN (IF a = PosInf THEN PosInf ELSE NaN)
    ELSE <<"ln", a, Num(0)>>

\* f64::exp
fexp(a) ==
    IF IsNaN(a) THEN NaN
    ELSE IF IsZero(a) THEN Num(1)
    ELSE IF IsInf(a) THEN (IF a = PosInf THEN PosInf ELSE Num(0))
    ELSE <<"exp", a, Num(0)>>

Float(f) == [tag |-> "Float", value |-> f, error |-> "NoError"]

(***************************************************************************)
(* LogarithmicBondingCurve: f(x) = growth * ln(x) + base                   *)
(***************************************************************************)
LogarithmicBondingCurve_new(base, growth) ==
    [kind |-> "Logarithmic", base |-> base, growth |-> growth]

\* Faulty variant: the formula evaluated at supply 0 as well.
Logarithmic_calculate_price_no_special_case(self, supply) ==
    Float(fadd(fmul(self.growth, fln(u64_as_f64(supply))), self.base))

Logarithmic_calculate_price(self, supply) ==
    IF supply = 0 THEN Float(self.base)
    ELSE Float(fadd(fmul(self.growth, fln(u64_as_f64(supply))), self.base))

\* the closure `integral` of calculate_price_many
Logarithmic_integral(self, x) ==
    fadd(fsub(fmul(fmul(self.growth, x), fln(x)), fmul(self.growth, x)),
         fmul(self.base, x))

Logarithmic_calculate_price_many(self, starting_supply, amount, side, oc) ==
    LET start == u64_as_f64(starting_supply)
        shifted == IF side = "Add" THEN add(oc, starting_supply, amount)
                   ELSE sub(oc, starting_supply, amount)
    IN IF shifted = Panic THEN Panicked
       ELSE LET end == u64_as_f64(shifted)
                price == IF side = "Add"
                         THEN fsub(Logarithmic_integral(self, end),
                                   Logarithmic_integral(self, start))
                         ELSE fsub(Logarithmic_integral(self, start),
                                   Logarithmic_integral(self, end))
            IN IF starting_supply = 0 /\ side = "Add"
               THEN Float(fadd(price, self.base))
               ELSE Float(price)

(***************************************************************************)
(* SigmoidBondingCurve:                                                    *)
(* f(x) = max_price / (1 + e^(-growth * (x - mid_supply)))                 *)
(***************************************************************************)
SigmoidBondingCurve_new(max_price, growth, mid_supply) ==
    [kind |-> "Sigmoid", max_price |-> max_price, growth |-> growth,
     mid_supply |-> mid_supply]

Sigmoid_calculate_price(self, supply) ==
    LET s == u64_as_f64(supply)
    IN Float(fdiv(self.max_price,
                  fadd(Num(1),
                       fexp(fmul(fneg(self.growth),
                                 fsub(s, u64_as_f64(self.mid_supply)))))))

\* Faulty variant: the bounds of a Remove batch not swapped.
Sigmoid_calculate_price_many_unswapped(self, starting_supply, amount, side) ==
    LET s == u64_as_f64(starting_supply)
        n == u64_as_f64(amount)
        mid_supply == u64_as_f64(self.mid_supply)
        start_supply == s
        end_supply == IF side = "Add" THEN fadd(s, n) ELSE fsub(s, n)
        price_at_end_supply ==
            fln(fadd(Num(1), fexp(fmul(self.growth, fsub(end_supply, mid_supply)))))
        price_at_start_supply ==
            fln(fadd(Num(1), fexp(fmul(self.growth, fsub(start_supply, mid_supply)))))
    IN Float(fmul(fdiv(self.max_price, self.growth),
                  fsub(price_at_end_supply, price_at_start_supply)))

Sigmoid_calculate_price_many(self, starting_supply, amount, side) ==
    LET s == u64_as_f64(starting_supply)
        n == u64_as_f64(amount)
        mid_supply == u64_as_f64(self.mid_supply)
        start_supply == IF side = "Add" THEN s ELSE fsub(s, n)
        end_supply == IF side = "Add" THEN fadd(s, n) ELSE s
        price_at_end_supply ==
            fln(fadd(Num(1), fexp(fmul(self.growth, fsub(end_supply, mid_supply)))))
        price_at_start_supply ==
            fln(fadd(Num(1), fexp(fmul(self.growth, fsub(start_supply, mid_supply)))))
    IN Float(fmul(fdiv(self.max_price, self.growth),
                  fsub(price_at_end_supply, price_at_start_supply)))

(***************************************************************************)
(* BondingCurve<f64>, dispatched on the curve, and its state machine.      *)
(***************************************************************************)
f64_calculate_price(self, supply) ==
    IF self.kind = "Logarithmic" THEN Logarithmic_calculate_price(self, supply)
    ELSE Sigmoid_calculate_price(self, supply)

f64_calculate_price_many(self, starting_supply, amount, side, oc) ==
    IF self.kind = "Logarithmic"
    THEN Logarithmic_calculate_price_many(self, starting_supply, amount, side, oc)
    ELSE Sigmoid_calculate_price_many(self, starting_supply, amount, side)

\* largest curve parameter of the floating-point curves
MaxParam == 2

FloatParams == {Num(i) : i \in 0 .. MaxParam}

\* mid_supply values on both sides of the exactly representable integers
MidSupplies == {0, 1, 2 ^ MantissaBits, 2 ^ MantissaBits + 1, NarrowMax}

FloatCurves ==
    {LogarithmicBondingCurve_new(b, g) : b \in FloatParams, g \in FloatParams}
    \cup {SigmoidBondingCurve_new(m, g, mid) :
            m \in FloatParams, g \in FloatParams, mid \in MidSupplies}

FloatInit ==
    /\ umax = NarrowMax
    /\ curve \in FloatCurves
    /\ overflow_checks \in BOOLEAN
    /\ call = NoCall
    /\ result = NoResult

F64CalculatePrice ==
    /\ Idle
    /\ \E supply \in 0 .. umax :
           /\ call' = [op |-> "calculate_price", supply |-> supply,
                       amount |-> 0, side |-> "Add"]
           /\ result' = f64_calculate_price(curve, supply)
           /\ UNCHANGED <<curve, overflow_checks, umax>>

F64CalculatePriceMany ==
    /\ Idle
    /\ \E starting_supply \in 0 .. umax, amount \in 0 .. MaxAmount,
          side \in OperationSide :
           /\ call' = [op |-> "calculate_price_many", supply |-> starting_supply,
                       amount |-> amount, side |-> side]
           /\ result' = f64_calculate_price_many(curve, starting_supply, amount,
                                                 side, overflow_checks)
           /\ UNCHANGED <<curve, overflow_checks, umax>>

F64Return ==
    /\ ~Idle
    /\ call' = NoCall
    /\ result' = NoResult
    /\ UNCHANGED <<curve, overflow_checks, umax>>

FloatNext ==
    \/ F64CalculatePrice
    \/ F64CalculatePriceMany
    \/ F64Return

FloatSpec == FloatInit /\ [][FloatNext]_vars

(***************************************************************************)
(* Exact (unbounded) arithmetic, the yardstick of the claims.              *)
(***************************************************************************)
IsLinear == curve.kind = "Linear"
IsQuadratic == curve.kind = "Quadratic"

Called(op) == call.op = op

\* the polynomial of the curve over the mathematical integers
ExactPrice(self, x) ==
    IF self.kind = "Linear" THEN self.linear * x + self.base
    ELSE self.quadratic * x * x + self.linear * x + self.base

\* sum over i in [0, k) of the polynomial at start + dir * i
RECURSIVE ExactSum(_, _, _, _)
ExactSum(self, start, k, dir) ==
    IF k = 0 THEN 0
    ELSE ExactPrice(self, start + dir * (k - 1)) + ExactSum(self, start, k - 1, dir)

\* sum over i in [0, k) of calculate_price(start + dir * i) as the build
\* computes each price; Panic when one of them aborts
RECURSIVE SumOfPrices(_, _, _, _, _)
SumOfPrices(self, start, k, dir, oc) ==
    IF k = 0 THEN 0
    ELSE LET p == calculate_price(self, start + dir * (k - 1), oc)
             rest == SumOfPrices(self, start, k - 1, dir, oc)
         IN IF p = Panic \/ rest = Panic THEN Panic ELSE p + rest

\* the batch computation of the last call stays inside the integer range:
\* no step of it overflows or underflows (the build with overflow checks
\* runs it to the end)
ManyInRange ==
    calculate_price_many(curve, call.supply, call.amount, call.side, TRUE) # Panic

(***************************************************************************)
(* C1: Linear curve, side Add: whenever amount >= 1 and the computation    *)
(* stays inside the integer range, calculate_price_many(start, amount,     *)
(* Add) is the sum of calculate_price(start + i) for i in [0, amount).     *)
(***************************************************************************)
C1_LinearAddManyIsSumOfPrices ==
    (/\ IsLinear /\ Called("calculate_price_many") /\ call.side = "Add"
     /\ call.amount >= 1 /\ ManyInRange)
    => result = Value(SumOfPrices(curve, call.supply, call.amount, 1,
                                  overflow_checks))

C1_Witness ==
    /\ IsLinear /\ Called("calculate_price_many") /\ call.side = "Add"
    /\ curve.linear >= 1 /\ call.supply >= 1 /\ call.amount >= 3 /\ ManyInRange
    /\ result.tag = "Value" /\ result.value > 0

(***************************************************************************)
(* C2: Linear curve, side Remove: whenever 1 <= amount <= start + 1 and    *)
(* the computation stays inside the integer range,                         *)
(* calculate_price_many(start, amount, Remove) is the sum of               *)
(* calculate_price(start - i) for i in [0, amount).                        *)
(***************************************************************************)
C2_LinearRemoveManyIsSumOfPrices ==
    (/\ IsLinear /\ Called("calculate_price_many") /\ call.side = "Remove"
     /\ call.amount >= 1 /\ call.amount <= call.supply + 1 /\ ManyInRange)
    => result = Value(SumOfPrices(curve, call.supply, call.amount, -1,
                                  overflow_checks))

C2_Witness ==
    /\ IsLinear /\ Called("calculate_price_many") /\ call.side = "Remove"
    /\ curve.linear >= 1 /\ call.amount >= 3 /\ call.amount <= call.supply
    /\ ManyInRange /\ result.tag = "Value" /\ result.value > 0

(***************************************************************************)
(* C3: Quadratic curve, side Add: whenever amount >= 1 and the computation *)
(* stays inside the integer range, the three-term closed form of           *)
(* calculate_price_many(start, amount, Add) is the sum of                  *)
(* calculate_price(start + i) for i in [0, amount).                        *)
(***************************************************************************)
C3_QuadraticAddManyIsSumOfPrices ==
    (/\ IsQuadratic /\ Called("calculate_price_many") /\ call.side = "Add"
     /\ call.amount >= 1 /\ ManyInRange)
    => result = Value(SumOfPrices(curve, call.supply, call.amount, 1,
                                  overflow_checks))

C3_Witness ==
    /\ IsQuadratic /\ Called("calculate_price_many") /\ call.side = "Add"
    /\ curve.quadratic >= 1 /\ curve.linear >= 1 /\ curve.base >= 1
    /\ call.supply >= 1 /\ call.amount >= 3 /\ ManyInRange
    /\ result.tag = "Value" /\ result.value > 0

(***************************************************************************)
(* C4: Quadratic curve, side Remove: whenever 1 <= amount <= start + 1 and *)
(* the computation stays inside the integer range,                         *)
(* calculate_price_many(start, amount, Remove), with the cross term        *)
(* subtracted, is the sum of calculate_price(start - i) for i in           *)
(* [0, amount).                                                            *)
(***************************************************************************)
C4_QuadraticRemoveManyIsSumOfPrices ==
    (/\ IsQuadratic /\ Called("calculate_price_many") /\ call.side = "Remove"
     /\ call.amount >= 1 /\ call.amount <= call.supply + 1 /\ ManyInRange)
    => result = Value(SumOfPrices(curve, call.supply, call.amount, -1,
                                  overflow_checks))

C4_Witness ==
    /\ IsQuadratic /\ Called("calculate_price_many") /\ call.side = "Remove"
    /\ curve.quadratic >= 1 /\ curve.linear >= 1 /\ curve.base >= 1
    /\ call.amount >= 3 /\ call.amount <= call.supply /\ ManyInRange
    /\ result.tag = "Value" /\ result.value > 0

(***************************************************************************)
(* C5: Linear calculate_price_many_checked(start, amount, side) with       *)
(* amount >= 1 (and amount <= start for Remove) yields Overflow or Ok(v)   *)
(* with v the exact sum of linear * x + base over the batch, and yields    *)
(* Overflow whenever that exact sum exceeds the maximum of the domain.     *)
(***************************************************************************)
Direction == IF call.side = "Add" THEN 1 ELSE -1

BatchPrecondition ==
    /\ call.amount >= 1
    /\ call.side = "Remove" => call.amount <= call.supply

ExactBatch == ExactSum(curve, call.supply, call.amount, Direction)

OverflowOrExact ==
    /\ result = Err("Overflow") \/ result = Ok(ExactBatch)
    /\ ExactBatch > umax => result = Err("Overflow")

C5_LinearManyCheckedIsOverflowOrExact ==
    (IsLinear /\ Called("calculate_price_many_checked") /\ BatchPrecondition)
    => OverflowOrExact

(***************************************************************************)
(* C6: Quadratic calculate_price_many_checked(start, amount, side) with    *)
(* amount >= 1 (and amount <= start for Remove) yields Overflow or Ok(v)   *)
(* with v the exact sum of quadratic * x^2 + linear * x + base over the    *)
(* batch, and yields Overflow whenever that exact sum exceeds the maximum  *)
(* of the domain.                                                          *)
(***************************************************************************)
C6_QuadraticManyCheckedIsOverflowOrExact ==
    (IsQuadratic /\ Called("calculate_price_many_checked") /\ BatchPrecondition)
    => OverflowOrExact

C6_Witness ==
    /\ IsQuadratic /\ Called("calculate_price_many_checked") /\ BatchPrecondition
    /\ curve.quadratic >= 1 /\ call.amount >= 3 /\ call.supply >= 1
    /\ result.tag = "Ok" /\ result.value > 0

(***************************************************************************)
(* C7: calculate_price_checked of the Linear and of the Quadratic curve    *)
(* yields Ok(p), p the exact value of the polynomial, when that value fits *)
(* the integer domain, and Overflow when it exceeds the maximum; never a   *)
(* wrapped value.                                                          *)
(***************************************************************************)
C7_PriceCheckedIsExactOrOverflow ==
    Called("calculate_price_checked")
    => result = IF ExactPrice(curve, call.supply) <= umax
                THEN Ok(ExactPrice(curve, call.supply))
                ELSE Err("Overflow")

C7_Witness ==
    /\ Called("calculate_price_checked") /\ IsQuadratic
    /\ curve.quadratic >= 1 /\ curve.linear >= 1 /\ call.supply >= 2
    /\ result.tag = "Ok"

(***************************************************************************)
(* C8: for both integer curves and both sides, whenever                    *)
(* calculate_price_many_checked(start, amount, side) yields Ok(v), the     *)
(* unchecked calculate_price_many on the same curve and arguments returns  *)
(* the same v.                                                             *)
(***************************************************************************)
UncheckedMany ==
    Returned(calculate_price_many(curve, call.supply, call.amount, call.side,
                                  overflow_checks))

C8_UncheckedAgreesWithChecked ==
    (Called("calculate_price_many_checked") /\ result.tag = "Ok")
    => UncheckedMany = Value(result.value)

\* quadratic * n * (n-1) * (2n-1), the product the unchecked Quadratic batch
\* forms before it divides by 6, fits the integer domain
SixfoldFits ==
    curve.quadratic * call.amount * (call.amount - 1) * (2 * call.amount - 1) <= umax

\* C8 as amended: the agreement holds for the Linear curve, and for the
\* Quadratic curve whenever quadratic * n * (n-1) * (2n-1) fits the domain.
C8_UncheckedAgreesWithCheckedWhenSixfoldFits ==
    (/\ Called("calculate_price_many_checked") /\ result.tag = "Ok"
     /\ IsQuadratic => SixfoldFits)
    => UncheckedMany = Value(result.value)

C8_Witness ==
    /\ Called("calculate_price_many_checked") /\ result.tag = "Ok"
    /\ IsQuadratic /\ SixfoldFits /\ call.side = "Remove"
    /\ curve.quadratic >= 1 /\ curve.linear >= 1 /\ call.amount >= 3
    /\ result.value > 0 /\ UncheckedMany = Value(result.value)

(***************************************************************************)
(* C9: Linear calculate_price and calculate_price_checked return exactly   *)
(* linear * supply + base at every supply where that value fits the        *)
(* integer domain (so the price at supply 0 is base); with linear =        *)
(* 500_000_000 and base = 1_000_000_000 the prices at supply 0, 1, 8, 800  *)
(* are 1_000_000_000, 1_500_000_000, 5_000_000_000, 401_000_000_000.       *)
(***************************************************************************)
PriceCall == Called("calculate_price") \/ Called("calculate_price_checked")

\* the value a price call has to produce
PriceOf(v) == IF Called("calculate_price") THEN Value(v) ELSE Ok(v)

\* the reference prices of the tests, in units of 10_000_000
LinearReferencePrices == (0 :> 100) @@ (1 :> 150) @@ (8 :> 500) @@ (800 :> 40100)
QuadraticReferencePrices == (0 :> 100) @@ (1 :> 151) @@ (8 :> 564) @@ (800 :> 680100)

C9_LinearPriceIsExact ==
    (IsLinear /\ PriceCall)
    => /\ ExactPrice(curve, call.supply) <= umax
          => result = PriceOf(curve.linear * call.supply + curve.base)
       /\ (call.supply = 0 /\ curve.base <= umax) => result = PriceOf(curve.base)
       /\ (curve = LinearBondingCurve_new(50, 100)
           /\ call.supply \in DOMAIN LinearReferencePrices)
          => result = PriceOf(LinearReferencePrices[call.supply])

C9_Witness ==
    /\ IsLinear /\ Called("calculate_price")
    /\ curve = LinearBondingCurve_new(50, 100) /\ call.supply = 800
    /\ result = Value(40100)

(***************************************************************************)
(* C10: Quadratic calculate_price and calculate_price_checked return       *)
(* exactly quadratic * supply^2 + linear * supply + base at every supply   *)
(* where that value fits the integer domain (so the price at supply 0 is   *)
(* base); with quadratic = 10_000_000, linear = 500_000_000 and base =     *)
(* 1_000_000_000 the prices at supply 0, 1, 8, 800 are 1_000_000_000,      *)
(* 1_510_000_000, 5_640_000_000, 6_801_000_000_000.                        *)
(***************************************************************************)
C10_QuadraticPriceIsExact ==
    (IsQuadratic /\ PriceCall)
    => /\ ExactPrice(curve, call.supply) <= umax
          => result = PriceOf(curve.quadratic * call.supply * call.supply
                              + curve.linear * call.supply + curve.base)
       /\ (call.supply = 0 /\ curve.base <= umax) => result = PriceOf(curve.base)
       /\ (curve = QuadraticBondingCurve_new(1, 50, 100)
           /\ call.supply \in DOMAIN QuadraticReferencePrices)
          => result = PriceOf(QuadraticReferencePrices[call.supply])

C10_Witness ==
    /\ IsQuadratic /\ Called("calculate_price_checked")
    /\ curve = QuadraticBondingCurve_new(1, 50, 100) /\ call.supply = 800
    /\ result = Ok(680100)

(***************************************************************************)
(* C11: price monotonicity of the integer curves: for supplies s1 <= s2,   *)
(* if calculate_price_checked(s2) is Ok(p2) then calculate_price_checked   *)
(* (s1) is Ok(p1) with p1 <= p2 (so an overflow at one supply implies an   *)
(* overflow at every larger one).                                          *)
(***************************************************************************)
C11_PriceCheckedIsMonotonic ==
    (Called("calculate_price_checked") /\ result.tag = "Ok")
    => \A s1 \in 0 .. call.supply :
           LET r1 == calculate_price_checked(curve, s1)
           IN r1.tag = "Ok" /\ r1.value <= result.value

C11_Witness ==
    /\ Called("calculate_price_checked") /\ result.tag = "Ok"
    /\ IsQuadratic /\ curve.quadratic >= 1 /\ call.supply >= 2
    /\ calculate_price_checked(curve, call.supply - 1).value < result.value
    /\ calculate_price_checked(curve, umax) = Err("Overflow")

(***************************************************************************)
(* C12: no checked operation of the Linear or of the Quadratic curve ever  *)
(* yields BondingCurveError::DivisionByZero; the only error produced is    *)
(* Overflow.                                                               *)
(***************************************************************************)
C12_OnlyOverflowIsRaised ==
    /\ result.error # "DivisionByZero"
    /\ result.tag = "Err" => result.error = "Overflow"

C12_Witness ==
    /\ Called("calculate_price_many_checked") /\ IsQuadratic
    /\ call.amount >= 1 /\ result = Err("Overflow")

(***************************************************************************)
(* The steps of the batch call of the current state, and the result the    *)
(* code forms from them.                                                   *)
(***************************************************************************)
ManyCall == Called("calculate_price_many") \/ Called("calculate_price_many_checked")

CallSteps ==
    IF IsLinear
    THEN IF Called("calculate_price_many")
         THEN Linear_many_steps(curve, call.supply, call.amount, call.side,
                                overflow_checks)
         ELSE Linear_many_checked_steps(curve, call.supply, call.amount, call.side,
                                        overflow_checks)
    ELSE IF Called("calculate_price_many")
         THEN Quadratic_many_steps(curve, call.supply, call.amount, call.side,
                                   overflow_checks)
         ELSE Quadratic_many_checked_steps(curve, call.supply, call.amount,
                                           call.side)

ResultOfSteps ==
    LET st == CallSteps
        oc == overflow_checks
        adding == call.side = "Add"
    IN IF IsLinear
       THEN IF Called("calculate_price_many")
            THEN Returned(div(st.dividend, 2))
            ELSE IF st.a1 = None THEN Err("Overflow")
                 ELSE IF st.last = Panic THEN Panicked
                 ELSE ok_or_Overflow(checked_div(st.dividend, 2))
       ELSE IF Called("calculate_price_many")
            THEN LET sq == add(oc, IF adding THEN add(oc, st.first, st.second)
                                   ELSE sub(oc, st.first, st.second),
                               div(st.sixfold, 6))
                     half == div(st.nn1, 2)
                     sl == mul(oc, curve.linear,
                               IF adding THEN add(oc, st.an, half)
                               ELSE sub(oc, st.an, half))
                 IN Returned(add(oc, add(oc, sq, sl),
                                 mul(oc, curve.base, call.amount)))
            ELSE LET third == checked_mul(curve.quadratic,
                                          checked_div(st.sixfold, 6))
                     sq == checked_add(IF adding
                                       THEN checked_add(st.first, st.second)
                                       ELSE checked_sub(st.first, st.second),
                                       third)
                     half == checked_div(st.nn1, 2)
                     sl == checked_mul(curve.linear,
                                       IF adding THEN checked_add(st.an, half)
                                       ELSE checked_sub(st.an, half))
                 IN ok_or_Overflow(checked_add(checked_add(sq, sl),
                                               checked_mul(curve.base,
                                                           call.amount)))

StepsGiveResult == ManyCall => ResultOfSteps = result

\* the steps of the Linear checked batch over the mathematical integers, in
\* the order the code takes them
LinearExactSteps ==
    LET a1 == curve.linear * call.supply + curve.base
        shifted == call.supply + Direction * call.amount
        last == shifted - Direction
        an == curve.linear * last + curve.base
    IN <<curve.linear * call.supply, a1, shifted, last, curve.linear * last, an,
         a1 + an, (a1 + an) * call.amount>>

SomeStepOverflows ==
    \E i \in 1 .. Len(LinearExactSteps) : LinearExactSteps[i] \notin 0 .. umax

(***************************************************************************)
(* C15: Linear calculate_price_many_checked: every arithmetic step is      *)
(* checked, the index starting_supply + amount - 1 (Add) or                *)
(* starting_supply - amount + 1 (Remove) included: whenever a step leaves  *)
(* the integer range the call returns Err(Overflow); no step wraps         *)
(* silently and none aborts the call.                                      *)
(***************************************************************************)
C15_LinearManyCheckedChecksEveryStep ==
    (IsLinear /\ Called("calculate_price_many_checked"))
    => /\ result.tag # "Panic"
       /\ SomeStepOverflows => result = Err("Overflow")

BelowZero(p) == p[1] >= 0 /\ p[2] >= 0 /\ p[1] < p[2]

RemoveWithinSupply ==
    /\ ManyCall /\ call.side = "Remove"
    /\ 1 <= call.amount /\ call.amount <= call.supply

(***************************************************************************)
(* C16: batch Remove on the integer curves with 1 <= amount <=             *)
(* starting_supply: no subtraction performed by calculate_price_many or    *)
(* calculate_price_many_checked goes below zero, for every parameter set.  *)
(***************************************************************************)
C16_RemoveNeverSubtractsBelowZero ==
    RemoveWithinSupply => \A p \in CallSteps.subtractions : ~BelowZero(p)

ProductsFit ==
    /\ curve.quadratic * call.supply * call.supply * call.amount <= umax
    /\ call.supply * call.amount <= umax

\* C16 as amended: the same, except that in a build without overflow checks
\* the unchecked Quadratic batch needs quadratic * start^2 * amount and
\* start * amount to fit the integer range.
C16_RemoveNeverSubtractsBelowZeroWhenProductsFit ==
    /\ StepsGiveResult
    /\ (/\ RemoveWithinSupply
        /\ (IsQuadratic /\ Called("calculate_price_many") /\ ~overflow_checks)
           => ProductsFit)
       => \A p \in CallSteps.subtractions : ~BelowZero(p)

C16_Witness ==
    /\ RemoveWithinSupply /\ IsQuadratic /\ Called("calculate_price_many")
    /\ ~overflow_checks /\ ProductsFit
    /\ curve.quadratic >= 1 /\ call.amount = call.supply /\ call.amount >= 3
    /\ CallSteps.first > CallSteps.second /\ CallSteps.second > 0
    /\ result.tag = "Value"

(***************************************************************************)
(* C17: Linear batch, unchecked and checked, both sides, amount >= 1: the  *)
(* division by 2 is exact, its dividend amount * (a1 + aN) being even for  *)
(* every input.                                                            *)
(***************************************************************************)
C17_LinearDividendIsEven ==
    /\ StepsGiveResult
    /\ (IsLinear /\ ManyCall /\ call.amount >= 1 /\ CallSteps.dividend >= 0)
       => CallSteps.dividend % 2 = 0

C17_Witness ==
    /\ IsLinear /\ Called("calculate_price_many") /\ ~overflow_checks
    /\ curve.linear % 2 = 1 /\ call.amount % 2 = 1 /\ call.amount >= 3
    /\ (LinearExactSteps[7] * call.amount) > umax
    /\ CallSteps.dividend > 0 /\ CallSteps.dividend % 2 = 0
    /\ result = Value(CallSteps.dividend \div 2)

(***************************************************************************)
(* C18: Quadratic batch, unchecked and checked: every integer division is  *)
(* exact: n(n-1) is divisible by 2 and the dividend of / 6, n(n-1)(2n-1)   *)
(* in the checked path and quadratic * n(n-1)(2n-1) in the unchecked path, *)
(* is divisible by 6.                                                      *)
(***************************************************************************)
C18_QuadraticDivisionsAreExact ==
    (IsQuadratic /\ ManyCall)
    => /\ CallSteps.nn1 >= 0 => CallSteps.nn1 % 2 = 0
       /\ CallSteps.sixfold >= 0 => CallSteps.sixfold % 6 = 0

\* C18 as amended: in the unchecked path of a build without overflow checks
\* the division by 6 is exact whenever quadratic * n(n-1)(2n-1) fits.
C18_QuadraticDivisionsAreExactWhenSixfoldFits ==
    /\ StepsGiveResult
    /\ (IsQuadratic /\ ManyCall)
       => /\ CallSteps.nn1 >= 0 => CallSteps.nn1 % 2 = 0
          /\ (/\ CallSteps.sixfold >= 0
              /\ (Called("calculate_price_many") /\ ~overflow_checks)
                 => SixfoldFits)
             => CallSteps.sixfold % 6 = 0

C18_Witness ==
    /\ IsQuadratic /\ Called("calculate_price_many") /\ ~overflow_checks
    /\ curve.quadratic >= 1 /\ call.amount >= 3 /\ SixfoldFits
    /\ CallSteps.sixfold > 0 /\ CallSteps.sixfold % 6 = 0
    /\ CallSteps.nn1 % 2 = 0 /\ result.tag = "Value"

MirrorStart == call.supply + call.amount - 1

MirrorRemove(start) ==
    calculate_price_many(curve, start, call.amount, "Remove", overflow_checks)

\* neither the Add batch nor the mirrored Remove batch overflows
NoOverflow ==
    /\ MirrorStart <= umax
    /\ ManyInRange
    /\ calculate_price_many(curve, MirrorStart, call.amount, "Remove", TRUE) # Panic

(***************************************************************************)
(* C20: buy/sell symmetry of the integer curves: for amount n >= 1 and no  *)
(* overflow, calculate_price_many(start, n, Add) equals                    *)
(* calculate_price_many(start + n - 1, n, Remove); the Remove starts at    *)
(* start + n - 1, not at start + n.                                        *)
(***************************************************************************)
C20_AddEqualsMirroredRemove ==
    (/\ Called("calculate_price_many") /\ call.side = "Add"
     /\ call.amount >= 1 /\ NoOverflow)
    => result = Value(MirrorRemove(MirrorStart))

C20_Witness ==
    /\ Called("calculate_price_many") /\ call.side = "Add" /\ IsQuadratic
    /\ call.amount >= 2 /\ call.supply >= 1 /\ curve.quadratic >= 1 /\ NoOverflow
    /\ result = Value(MirrorRemove(MirrorStart))
    /\ MirrorStart + 1 <= umax
    /\ MirrorRemove(MirrorStart + 1) # result.value

IsLogarithmic == curve.kind = "Logarithmic"
IsSigmoid == curve.kind = "Sigmoid"

(***************************************************************************)
(* C13: Logarithmic calculate_price: for every base and growth,            *)
(* calculate_price(0) is base exactly (no logarithm is taken at supply     *)
(* 0); for every supply > 0 it is growth * ln(supply) + base.              *)
(***************************************************************************)
C13_LogarithmicPriceIsBaseAtZero ==
    (IsLogarithmic /\ Called("calculate_price"))
    => /\ result.tag = "Float"
       /\ IF call.supply = 0
          THEN Feq(result.value, curve.base)
          ELSE Feq(result.value,
                   fadd(fmul(curve.growth, fln(u64_as_f64(call.supply))),
                        curve.base))

C13_Witness ==
    /\ IsLogarithmic /\ Called("calculate_price") /\ call.supply = 0
    /\ curve.growth = Num(1) /\ curve.base = Num(2)
    /\ result = Float(Num(2))

\* F(x) = growth * x * ln(x) - growth * x + base * x in f64
LogF(x) ==
    fadd(fsub(fmul(fmul(curve.growth, x), fln(x)), fmul(curve.growth, x)),
         fmul(curve.base, x))

\* the other bound of the batch, starting_supply +/- amount
BatchEnd == call.supply + Direction * call.amount

RawIntegralDifference ==
    IF call.side = "Add"
    THEN fsub(LogF(u64_as_f64(BatchEnd)), LogF(u64_as_f64(call.supply)))
    ELSE fsub(LogF(u64_as_f64(call.supply)), LogF(u64_as_f64(BatchEnd)))

(***************************************************************************)
(* C14: Logarithmic calculate_price_many: calculate_price_many(0, n, Add)  *)
(* equals the raw integral difference F(n) - F(0) plus exactly one extra   *)
(* base, with F(x) = growth*x*ln(x) - growth*x + base*x; every other call  *)
(* (starting_supply # 0, or side Remove) returns the raw integral          *)
(* difference with no extra term.                                          *)
(***************************************************************************)
C14_LogarithmicManyAddsOneBaseAtZero ==
    (IsLogarithmic /\ Called("calculate_price_many") /\ BatchEnd \in 0 .. umax)
    => /\ result.tag = "Float"
       /\ IF call.supply = 0 /\ call.side = "Add"
          THEN Feq(result.value, fadd(RawIntegralDifference, curve.base))
          ELSE Feq(result.value, RawIntegralDifference)

\* ln(1 + e^(growth * (x - mid_supply)))
SigmoidLn(x) ==
    fln(fadd(Num(1),
             fexp(fmul(curve.growth, fsub(x, u64_as_f64(curve.mid_supply))))))

\* F(supply) - F(supply - amount), the common factor max_price / growth
\* taken out as the code has it
SigmoidIntegralDifference ==
    fmul(fdiv(curve.max_price, curve.growth),
         fsub(SigmoidLn(u64_as_f64(call.supply)),
              SigmoidLn(u64_as_f64(call.supply - call.amount))))

SigmoidAddFromBelow ==
    Sigmoid_calculate_price_many(curve, call.supply - call.amount, call.amount,
                                 "Add")

SigmoidRemoveWithinSupply ==
    /\ IsSigmoid /\ Called("calculate_price_many")
    /\ call.side = "Remove" /\ call.amount <= call.supply

(***************************************************************************)
(* C19: Sigmoid calculate_price_many, side Remove: for every curve and     *)
(* every amount <= supply, calculate_price_many(supply, amount, Remove)    *)
(* equals F(supply) - F(supply - amount) and so equals                     *)
(* calculate_price_many(supply - amount, amount, Add), with                *)
(* F(x) = (max_price / growth) * ln(1 + e^(growth * (x - mid_supply))).    *)
(***************************************************************************)
C19_SigmoidRemoveIsAddFromBelow ==
    SigmoidRemoveWithinSupply
    => /\ Feq(result.value, SigmoidIntegralDifference)
       /\ Feq(result.value, SigmoidAddFromBelow.value)

\* C19 as amended: the same for supplies up to 2^MantissaBits, every integer
\* up to which is an f64, and results that are not NaN.
C19_SigmoidRemoveIsAddFromBelowWhenExact ==
    (/\ SigmoidRemoveWithinSupply
     /\ call.supply <= 2 ^ MantissaBits
     /\ ~IsNaN(result.value))
    => /\ Feq(result.value, SigmoidIntegralDifference)
       /\ Feq(result.value, SigmoidAddFromBelow.value)

C19_Witness ==
    /\ SigmoidRemoveWithinSupply /\ call.amount >= 2
    /\ call.supply <= 2 ^ MantissaBits /\ call.supply > curve.mid_supply
    /\ curve.growth = Num(1) /\ curve.max_price = Num(2)
    /\ result.value[1] = "mul"
    /\ result = SigmoidAddFromBelow

\* an Add batch of the curve as the build computes it; Panic when it aborts
\* or when its start is past the integer range
AddBatch(start, k, oc) ==
    IF start > umax THEN Panic
    ELSE calculate_price_many(curve, start, k, "Add", oc)

\* the total costs of all sequences of Add batches of k units in all, the
\* first started at start and each next one at the supply advanced by the
\* batches before it; Panic is a member when a batch of a sequence aborts
RECURSIVE SplitCosts(_, _, _)
SplitCosts(start, k, oc) ==
    IF k = 0 THEN {0}
    ELSE UNION {LET b == AddBatch(start, j, oc)
                IN {IF b = Panic \/ c = Panic THEN Panic ELSE b + c :
                      c \in SplitCosts(start + j, k - j, oc)} :
                j \in 1 .. k}

\* split of the batch of the last call after n units, no computation
\* overflowing
SplitFits(n) ==
    /\ ManyInRange
    /\ AddBatch(call.supply, n, TRUE) # Panic
    /\ AddBatch(call.supply + n, call.amount - n, TRUE) # Panic

(***************************************************************************)
(* C21: batch splitting is price-neutral on the integer curves: for every  *)
(* start and all n, m >= 1 with no overflow, calculate_price_many(start,   *)
(* n + m, Add) = calculate_price_many(start, n, Add) +                     *)
(* calculate_price_many(start + n, m, Add); hence every sequence of Add    *)
(* batches, each started at the supply advanced by the batches before it,  *)
(* costs in total what one Add batch of the summed amount costs.           *)
(***************************************************************************)
C21_AddBatchSplitsArePriceNeutral ==
    (Called("calculate_price_many") /\ call.side = "Add" /\ call.amount >= 2)
    => /\ \A n \in 1 .. call.amount - 1 :
              SplitFits(n)
              => result = Value(AddBatch(call.supply, n, overflow_checks)
                                + AddBatch(call.supply + n, call.amount - n,
                                           overflow_checks))
       /\ Panic \notin SplitCosts(call.supply, call.amount, TRUE)
          => SplitCosts(call.supply, call.amount, overflow_checks)
             = {result.value}

C21_Witness ==
    /\ Called("calculate_price_many") /\ call.side = "Add" /\ IsQuadratic
    /\ curve.quadratic >= 1 /\ curve.linear >= 1 /\ curve.base >= 1
    /\ call.supply >= 1 /\ call.amount >= 3
    /\ SplitFits(2)
    /\ Panic \notin SplitCosts(call.supply, call.amount, TRUE)
    /\ result = Value(AddBatch(call.supply, 2, overflow_checks)
                      + AddBatch(call.supply + 2, call.amount - 2,
                                 overflow_checks))
    /\ AddBatch(call.supply + 2, call.amount - 2, overflow_checks) > 0

\* the supply index of the last unit of the batch
LastIndex == call.supply + Direction * (call.amount - 1)

\* a1, aN, a1 + aN and (a1 + aN) * amount over the mathematical integers
LinearIntermediates ==
    LET a1 == curve.linear * call.supply + curve.base
        an == curve.linear * LastIndex + curve.base
    IN <<a1, an, a1 + an, (a1 + an) * call.amount>>

IntermediateExceeds ==
    \E i \in 1 .. Len(LinearIntermediates) : LinearIntermediates[i] > umax

DoubledTotalExceeds ==
    \/ 2 * ExactBatch > umax
    \/ LinearIntermediates[1] > umax
    \/ LinearIntermediates[2] > umax

(***************************************************************************)
(* C22: overflow condition of Linear calculate_price_many_checked: for     *)
(* amount >= 1 and the supply indices of the batch in range, it returns    *)
(* Overflow exactly when one of a1, aN, a1 + aN, (a1 + aN) * amount        *)
(* exceeds the integer maximum, that is exactly when twice the batch       *)
(* total does (or a1 or aN alone); so it returns Overflow for a batch      *)
(* whose exact total fits while its double does not.                       *)
(***************************************************************************)
C22_LinearManyCheckedOverflowsOnDoubledTotal ==
    (/\ IsLinear /\ Called("calculate_price_many_checked")
     /\ call.amount >= 1 /\ LastIndex \in 0 .. umax)
    => /\ result = Err("Overflow") <=> IntermediateExceeds
       /\ IntermediateExceeds <=> DoubledTotalExceeds
       /\ (ExactBatch <= umax /\ 2 * ExactBatch > umax)
          => result = Err("Overflow")

(***************************************************************************)
(* C23: empty batch on the Quadratic checked path: for every curve, every  *)
(* starting_supply and both sides, calculate_price_many_checked(           *)
(* starting_supply, 0, side) returns Overflow, raised by the checked       *)
(* n - 1, rather than Ok(0).                                               *)
(***************************************************************************)
C23_QuadraticEmptyBatchIsOverflow ==
    (IsQuadratic /\ Called("calculate_price_many_checked") /\ call.amount = 0)
    => /\ result = Err("Overflow")
       /\ CallSteps.n1 = None
       /\ checked_sub(call.amount, 1) = None

C23_Witness ==
    /\ IsQuadratic /\ Called("calculate_price_many_checked")
    /\ call.amount = 0 /\ call.side = "Remove" /\ call.supply >= 1
    /\ curve.quadratic >= 1 /\ curve.linear >= 1 /\ curve.base >= 1
    /\ result = Err("Overflow")
====
